---------------------------- MODULE Spec2Model ----------------------------
(***************************************************************************)
(* Model of frontend/program/manage/manage_program.js: the page script     *)
(* that fetches one program, renders its steps as table rows and wires     *)
(* the delete button.                                                      *)
(*                                                                         *)
(* Representation.  A step key is a JavaScript string of decimal digits,   *)
(* kept as the sequence of its digits (<<1, 0>> is "10") so that the       *)
(* code-unit order Array.prototype.sort uses can be computed.  A parsed    *)
(* JSON object is the sequence of its [key, value] members in the order    *)
(* of the JSON text, with distinct keys.  A step is a record holding the   *)
(* members the JSON object has (a member may be missing).  A JavaScript    *)
(* value that takes part in a string concatenation is tagged: Undefined,   *)
(* Str(s) or Num(n).  A page-global variable that no statement has         *)
(* assigned yet is <<>>, an assigned one is <<value>>.                      *)
(***************************************************************************)
EXTENDS Integers, Sequences, FiniteSets, TLC

VARIABLES
    program_id,       \* global program_id: <<>> or <<id>>
    scientist,        \* global scientist: <<>> or <<value>>
    step_data,        \* global step_data: <<>> or <<parsed object>>
    step_keys,        \* global step_keys: sequence of keys
    steps,            \* global steps: the HTML built so far
    handler_bound,    \* the delegated click handler on #delete is installed
    requests,         \* every request handed to http(), in issue order
    program_title,    \* innerHTML of #program_title
    driver_name,      \* innerHTML of #driver_name
    program_details,  \* innerHTML of #program_details
    location,         \* window.location.href
    uncaught,         \* names of the exceptions that left a callback
    accepted,         \* confirmation prompts answered OK
    declined          \* confirmation prompts answered Cancel

vars == <<program_id, scientist, step_data, step_keys, steps, handler_bound,
          requests, program_title, driver_name, program_details, location,
          uncaught, accepted, declined>>

-----------------------------------------------------------------------------
(* Bounds of the model. *)

\* members of a steps object in the rendering specification
MaxSteps == 3
\* clicks on #delete in one page load
MaxClicks == 2

-----------------------------------------------------------------------------
(* JavaScript values and string conversion. *)

Undefined == [t |-> "undefined"]
Str(s) == [t |-> "string", v |-> s]
Num(n) == [t |-> "number", v |-> n]

\* ToString of the operand of a string concatenation ('...' + x).
ToStr(x) ==
    CASE x.t = "undefined" -> "undefined"
      [] x.t = "string" -> x.v
      [] x.t = "number" -> ToString(x.v)

\* data[f]: the member, or undefined when the object has none.
Get(data, f) == IF f \in DOMAIN data THEN Num(data[f]) ELSE Undefined

\* data['mode'] == m
ModeIs(data, m) == "mode" \in DOMAIN data /\ data["mode"] = m

\* The text of a key.
RECURSIVE KeyStr(_)
KeyStr(k) == IF k = <<>> THEN "" ELSE ToString(Head(k)) \o KeyStr(Tail(k))

-----------------------------------------------------------------------------
(* display_step *)

display_step_swapped(data) ==
    IF ModeIs(data, "set")
    THEN Str("Set to " \o ToStr(Get(data, "duration")) \o "&deg;C for "
             \o ToStr(Get(data, "temperature")) \o " seconds")
    ELSE IF ModeIs(data, "linear")
    THEN Str("Ramp from " \o ToStr(Get(data, "start_temperature")) \o "&deg;C to "
             \o ToStr(Get(data, "end_temperature")) \o "&deg;C over "
             \o ToStr(Get(data, "duration")) \o " seconds.")
    ELSE IF ModeIs(data, "hold")
    THEN Str("Hold at " \o ToStr(Get(data, "temperature")) \o "&deg;C")
    ELSE IF ModeIs(data, "repeat")
    THEN Str("Repeat " \o ToStr(Get(data, "num_repeats")) \o " times")
    ELSE Undefined

display_step(data) ==
    IF ModeIs(data, "set")
    THEN Str("Set to " \o ToStr(Get(data, "temperature")) \o "&deg;C for "
             \o ToStr(Get(data, "duration")) \o " seconds")
    ELSE IF ModeIs(data, "linear")
    THEN Str("Ramp from " \o ToStr(Get(data, "start_temperature")) \o "&deg;C to "
             \o ToStr(Get(data, "end_temperature")) \o "&deg;C over "
             \o ToStr(Get(data, "duration")) \o " seconds.")
    ELSE IF ModeIs(data, "hold")
    THEN Str("Hold at " \o ToStr(Get(data, "temperature")) \o "&deg;C")
    ELSE IF ModeIs(data, "repeat")
    THEN Str("Repeat " \o ToStr(Get(data, "num_repeats")) \o " times")
    ELSE Undefined

-----------------------------------------------------------------------------
(* Key enumeration and sorting. *)

\* A key that is a canonical array index ("0", "7", "10"; not "05").
IsIndex(k) == Len(k) = 1 \/ k[1] # 0

RECURSIVE NumVal(_)
NumVal(k) == IF k = <<>> THEN 0 ELSE 10 * NumVal(SubSeq(k, 1, Len(k) - 1)) + k[Len(k)]

\* s, ascending by numeric value, with x inserted.
RECURSIVE NumInsert(_, _)
NumInsert(s, x) ==
    IF s = <<>> THEN <<x>>
    ELSE IF NumVal(x) < NumVal(Head(s)) THEN <<x>> \o s
    ELSE <<Head(s)>> \o NumInsert(Tail(s), x)

RECURSIVE IndexKeys(_)
IndexKeys(obj) ==
    IF obj = <<>> THEN <<>>
    ELSE IF IsIndex(obj[Len(obj)].key)
         THEN NumInsert(IndexKeys(SubSeq(obj, 1, Len(obj) - 1)), obj[Len(obj)].key)
         ELSE IndexKeys(SubSeq(obj, 1, Len(obj) - 1))

RECURSIVE OtherKeys(_)
OtherKeys(obj) ==
    IF obj = <<>> THEN <<>>
    ELSE IF IsIndex(Head(obj).key) THEN OtherKeys(Tail(obj))
    ELSE <<Head(obj).key>> \o OtherKeys(Tail(obj))

\* for (var key in step_data) step_keys.push(key): the property order of an
\* ordinary object, integer keys ascending and then the rest as inserted.
ForIn(obj) == IndexKeys(obj) \o OtherKeys(obj)

\* The UTF-16 code unit of a digit.
CharCode(d) == 48 + d

\* a < b in the order of the default sort comparator: code unit by code unit,
\* a proper prefix first.
RECURSIVE StrLess(_, _)
StrLess(a, b) ==
    IF b = <<>> THEN FALSE
    ELSE IF a = <<>> THEN TRUE
    ELSE IF CharCode(Head(a)) # CharCode(Head(b)) THEN CharCode(Head(a)) < CharCode(Head(b))
    ELSE StrLess(Tail(a), Tail(b))

RECURSIVE StrInsert(_, _)
StrInsert(s, x) ==
    IF s = <<>> THEN <<x>>
    ELSE IF StrLess(x, Head(s)) THEN <<x>> \o s
    ELSE <<Head(s)>> \o StrInsert(Tail(s), x)

RECURSIVE SortedFrom(_)
SortedFrom(keys) ==
    IF keys = <<>> THEN <<>> ELSE StrInsert(SortedFrom(Tail(keys)), Head(keys))

ArraySort_none(keys) == keys

\* step_keys.sort()
ArraySort(keys) == SortedFrom(keys)

\* step_data[k]
Lookup(obj, k) == obj[CHOOSE i \in 1..Len(obj) : obj[i].key = k].value

\* One pass of the row loop.
Row(obj, k) ==
    "<tr><td>" \o KeyStr(k) \o "</td><td>" \o ToStr(display_step(Lookup(obj, k)))
        \o "</td></tr>"

\* for (var key in step_keys) steps += ...
RECURSIVE BuildRows(_, _)
BuildRows(obj, keys) ==
    IF keys = <<>> THEN ""
    ELSE BuildRows(obj, SubSeq(keys, 1, Len(keys) - 1)) \o Row(obj, keys[Len(keys)])

-----------------------------------------------------------------------------
(* Inputs: what the URL, the backend and the user can supply. *)

\* Values of the id parameter of the page URL.
Ids == {"3", "12"}

Keys == {<<1>>, <<2>>, <<1, 0>>, <<0, 5>>}

Temps == {20, 180}
Durations == {5}
Repeats == {3}

\* Steps of the four modes, a hold step with a member its mode does not use,
\* a step of a mode the script does not know, and a step without a mode.
StepValues ==
    {[mode |-> "set", temperature |-> t, duration |-> d] : t \in Temps, d \in Durations}
    \cup {[mode |-> "linear", start_temperature |-> a, end_temperature |-> b,
           duration |-> d] : a \in {20}, b \in {90}, d \in Durations}
    \cup {[mode |-> "hold", temperature |-> t] : t \in {50}}
    \cup {[mode |-> "hold", temperature |-> t, duration |-> d] : t \in {50}, d \in Durations}
    \cup {[mode |-> "repeat", num_repeats |-> n] : n \in Repeats}
    \cup {[mode |-> "wait", temperature |-> t] : t \in {50}}
    \cup {[temperature |-> t] : t \in {50}}

\* Sequences of n distinct keys.
KeySeqs(n) == {ks \in [1..n -> Keys] : \A i, j \in 1..n : ks[i] = ks[j] => i = j}

\* The JSON object with keys ks and values vs, in that order.
Object(ks, vs) == [i \in DOMAIN ks |-> [key |-> ks[i], value |-> vs[i]]]

\* The text of response['steps']: a JSON object, or text JSON.parse rejects.
Malformed == [ok |-> FALSE]
JsonText(obj) == [ok |-> TRUE, object |-> obj]

ProgramResponses(scientists, stepsTexts) ==
    [name : {"Bake"}, driver : {"7"}, scientist : scientists, steps : stepsTexts]

\* A program response of the rendering specification.
RenderResponse(ks, vs) ==
    [name |-> "Bake", driver |-> "7", scientist |-> "alice", steps |-> JsonText(Object(ks, vs))]

\* Program responses of the page specification: no steps, one step of each
\* kind, the three keys "2", "10", "1", and malformed text.
PageObjects ==
    {<<>>,
     <<[key |-> <<1>>, value |-> [mode |-> "hold", temperature |-> 180]]>>,
     <<[key |-> <<1>>, value |-> [mode |-> "wait", temperature |-> 50]]>>,
     <<[key |-> <<2>>, value |-> [mode |-> "hold", temperature |-> 50]],
       [key |-> <<1, 0>>, value |-> [mode |-> "set", temperature |-> 30, duration |-> 5]],
       [key |-> <<1>>, value |-> [mode |-> "hold", temperature |-> 20]]>>}

PageResponses == ProgramResponses({"alice", "bob"}, {JsonText(o) : o \in PageObjects} \cup {Malformed})

DriverResponses == [name : {"OvenX"}]

-----------------------------------------------------------------------------
(* The request helper. *)

\* http(path, method, null, callback): one more request in flight.
http(reqs, path, method, callback) ==
    Append(reqs, [method |-> method, path |-> path, cb |-> callback, status |-> "pending"])

Pending(i, callback) ==
    /\ i \in DOMAIN requests
    /\ requests[i].cb = callback
    /\ requests[i].status = "pending"

Settle(reqs, i, status) == [reqs EXCEPT ![i].status = status]

-----------------------------------------------------------------------------
(* The page. *)

ThisPage == "manage_program"

Init ==
    /\ program_id = <<>>
    /\ scientist = <<>>
    /\ step_data = <<>>
    /\ step_keys = <<>>
    /\ steps = ""
    /\ handler_bound = FALSE
    /\ requests = <<>>
    /\ program_title = ""
    /\ driver_name = ""
    /\ program_details = ""
    /\ location = ThisPage
    /\ uncaught = {}
    /\ accepted = 0
    /\ declined = 0

\* DocumentReady with the driver request issued beside the program request.
DocumentReady_eager_driver ==
    /\ ~handler_bound
    /\ \E id \in Ids :
        /\ program_id' = <<id>>
        /\ requests' = http(http(requests, "program/" \o id, "GET", "program"),
                            "driver/" \o id, "GET", "driver")
    /\ handler_bound' = TRUE
    /\ UNCHANGED <<scientist, step_data, step_keys, steps, program_title, driver_name,
                   program_details, location, uncaught, accepted, declined>>

\* $(document).ready(...): read the id, request the program, bind the handler.
DocumentReady ==
    /\ ~handler_bound
    /\ \E id \in Ids :
        /\ program_id' = <<id>>
        /\ requests' = http(requests, "program/" \o id, "GET", "program")
    /\ handler_bound' = TRUE
    /\ UNCHANGED <<scientist, step_data, step_keys, steps, program_title, driver_name,
                   program_details, location, uncaught, accepted, declined>>

\* ProgramCallback with the steps parsed before anything else is done.
ProgramCallback_parse_first(i, response) ==
    /\ Pending(i, "program")
    /\ IF response.steps.ok
       THEN /\ scientist' = <<response.scientist>>
            /\ program_title' = response.name
            /\ requests' = http(Settle(requests, i, "success"),
                                "driver/" \o response.driver, "GET", "driver")
            /\ step_data' = <<response.steps.object>>
            /\ step_keys' = ArraySort(ForIn(response.steps.object))
            /\ steps' = BuildRows(response.steps.object, step_keys')
            /\ program_details' = steps'
            /\ UNCHANGED uncaught
       ELSE /\ requests' = Settle(requests, i, "success")
            /\ uncaught' = uncaught \cup {"SyntaxError"}
            /\ UNCHANGED <<scientist, program_title, step_data, step_keys, steps,
                           program_details>>
    /\ UNCHANGED <<program_id, handler_bound, driver_name, location, accepted, declined>>

\* ProgramCallback writing the driver line itself, from the driver id.
ProgramCallback_writes_driver(i, response) ==
    /\ Pending(i, "program")
    /\ scientist' = <<response.scientist>>
    /\ program_title' = response.name
    /\ driver_name' = "Driver: " \o response.driver
    /\ requests' = http(Settle(requests, i, "success"),
                        "driver/" \o response.driver, "GET", "driver")
    /\ IF response.steps.ok
       THEN /\ step_data' = <<response.steps.object>>
            /\ step_keys' = ArraySort(ForIn(response.steps.object))
            /\ steps' = BuildRows(response.steps.object, step_keys')
            /\ program_details' = steps'
            /\ UNCHANGED uncaught
       ELSE /\ uncaught' = uncaught \cup {"SyntaxError"}
            /\ UNCHANGED <<step_data, step_keys, steps, program_details>>
    /\ UNCHANGED <<program_id, handler_bound, location, accepted, declined>>

\* The success callback of GET program/{id}.
ProgramCallback(i, response) ==
    /\ Pending(i, "program")
    /\ scientist' = <<response.scientist>>
    /\ program_title' = response.name
    /\ requests' = http(Settle(requests, i, "success"),
                        "driver/" \o response.driver, "GET", "driver")
    /\ IF response.steps.ok
       THEN /\ step_data' = <<response.steps.object>>
            /\ step_keys' = ArraySort(ForIn(response.steps.object))
            /\ steps' = BuildRows(response.steps.object, step_keys')
            /\ program_details' = steps'
            /\ UNCHANGED uncaught
       ELSE /\ uncaught' = uncaught \cup {"SyntaxError"}
            /\ UNCHANGED <<step_data, step_keys, steps, program_details>>
    /\ UNCHANGED <<program_id, handler_bound, driver_name, location, accepted, declined>>

\* DriverCallback writing the title element instead of the driver line.
DriverCallback_wrong_region(i, driver_response) ==
    /\ Pending(i, "driver")
    /\ requests' = Settle(requests, i, "success")
    /\ program_title' = "Driver: " \o driver_response.name
    /\ UNCHANGED <<program_id, scientist, step_data, step_keys, steps, handler_bound,
                   driver_name, program_details, location, uncaught, accepted, declined>>

\* The success callback of GET driver/{id}.
DriverCallback(i, driver_response) ==
    /\ Pending(i, "driver")
    /\ requests' = Settle(requests, i, "success")
    /\ driver_name' = "Driver: " \o driver_response.name
    /\ UNCHANGED <<program_id, scientist, step_data, step_keys, steps, handler_bound,
                   program_title, program_details, location, uncaught, accepted, declined>>

\* ClickDelete with the answer to the prompt ignored.
ClickDelete_unconfirmed(confirmed) ==
    /\ handler_bound
    /\ accepted + declined < MaxClicks
    /\ IF confirmed
       THEN accepted' = accepted + 1 /\ UNCHANGED declined
       ELSE declined' = declined + 1 /\ UNCHANGED accepted
    /\ requests' = http(requests, "program/" \o program_id[1], "DELETE", "delete")
    /\ UNCHANGED <<program_id, scientist, step_data, step_keys, steps, handler_bound,
                   program_title, driver_name, program_details, location, uncaught>>

\* ClickDelete that issues nothing while an earlier DELETE is in flight.
ClickDelete_single_flight(confirmed) ==
    /\ handler_bound
    /\ accepted + declined < MaxClicks
    /\ IF confirmed
       THEN /\ accepted' = accepted + 1
            /\ requests' = IF \E i \in DOMAIN requests : Pending(i, "delete")
                           THEN requests
                           ELSE http(requests, "program/" \o program_id[1], "DELETE", "delete")
            /\ UNCHANGED declined
       ELSE /\ declined' = declined + 1
            /\ UNCHANGED <<accepted, requests>>
    /\ UNCHANGED <<program_id, scientist, step_data, step_keys, steps, handler_bound,
                   program_title, driver_name, program_details, location, uncaught>>

\* A click on #delete and the answer to window.confirm.
ClickDelete(confirmed) ==
    /\ handler_bound
    /\ accepted + declined < MaxClicks
    /\ IF confirmed
       THEN /\ accepted' = accepted + 1
            /\ requests' = http(requests, "program/" \o program_id[1], "DELETE", "delete")
            /\ UNCHANGED declined
       ELSE /\ declined' = declined + 1
            /\ UNCHANGED <<accepted, requests>>
    /\ UNCHANGED <<program_id, scientist, step_data, step_keys, steps, handler_bound,
                   program_title, driver_name, program_details, location, uncaught>>

\* The success callback of DELETE program/{id}.  Reading scientist before any
\* statement has assigned it is a ReferenceError, and the assignment to
\* window.location.href is not reached.
DeleteCallback(i) ==
    /\ Pending(i, "delete")
    /\ requests' = Settle(requests, i, "success")
    /\ IF scientist = <<>>
       THEN /\ uncaught' = uncaught \cup {"ReferenceError"}
            /\ UNCHANGED location
       ELSE /\ location' = "/program?user=" \o scientist[1]
            /\ UNCHANGED uncaught
    /\ UNCHANGED <<program_id, scientist, step_data, step_keys, steps, handler_bound,
                   program_title, driver_name, program_details, accepted, declined>>

\* A request that does not succeed: no callback runs.
RequestFails(i) ==
    /\ i \in DOMAIN requests
    /\ requests[i].status = "pending"
    /\ requests' = Settle(requests, i, "failed")
    /\ UNCHANGED <<program_id, scientist, step_data, step_keys, steps, handler_bound,
                   program_title, driver_name, program_details, location, uncaught,
                   accepted, declined>>

Next ==
    \/ DocumentReady
    \/ \E i \in DOMAIN requests :
            Pending(i, "program") /\ \E response \in PageResponses : ProgramCallback(i, response)
    \/ \E i \in DOMAIN requests :
            Pending(i, "driver")
                /\ \E driver_response \in DriverResponses : DriverCallback(i, driver_response)
    \/ \E confirmed \in BOOLEAN : ClickDelete(confirmed)
    \/ \E i \in DOMAIN requests : DeleteCallback(i)
    \/ \E i \in DOMAIN requests : RequestFails(i)

Spec == Init /\ [][Next]_vars

\* The rendering specification: the page is ready, and the program response
\* is drawn from every steps object within the bounds.
RenderNext ==
    \/ DocumentReady
    \/ \E i \in DOMAIN requests :
            /\ Pending(i, "program")
            /\ \E m \in 0..MaxSteps : \E ks \in KeySeqs(m) : \E vs \in [1..m -> StepValues] :
                    ProgramCallback(i, RenderResponse(ks, vs))

RenderSpec == Init /\ [][RenderNext]_vars

-----------------------------------------------------------------------------
(* Vocabulary of the properties. *)

Issued(callback) == {i \in DOMAIN requests : requests[i].cb = callback}

Succeeded(callback) == {i \in Issued(callback) : requests[i].status = "success"}

\* The step from the current state to the next one is the success callback
\* of a request of this kind.
CallbackStep(callback) ==
    \E i \in DOMAIN requests : Pending(i, callback) /\ requests'[i].status = "success"

Recognised(data) ==
    "mode" \in DOMAIN data /\ data["mode"] \in {"set", "linear", "hold", "repeat"}

\* a sorts strictly before b as a string: they agree on the first n
\* characters, and then a ends or has the smaller character.
LexBefore(a, b) ==
    \E n \in 0..Len(a) :
        /\ n <= Len(b)
        /\ \A m \in 1..n : a[m] = b[m]
        /\ \/ n = Len(a) /\ n < Len(b)
           \/ n < Len(a) /\ n < Len(b) /\ a[n + 1] < b[n + 1]

ValueOf(obj, k) == CHOOSE v \in {obj[i].value : i \in DOMAIN obj} :
                        \E i \in DOMAIN obj : obj[i].key = k /\ obj[i].value = v

\* The text of the second cell of a step's row: what display_step returns,
\* converted as string concatenation converts it; with blankUnknown, nothing
\* for a step that display_step returns no value for.
CellText(data, blankUnknown) ==
    IF blankUnknown /\ display_step(data) = Undefined THEN "" ELSE ToStr(display_step(data))

\* The table with one row per key of keys, in that order.
RECURSIVE TableOf(_, _, _)
TableOf(obj, keys, blankUnknown) ==
    IF keys = <<>> THEN ""
    ELSE "<tr><td>" \o KeyStr(Head(keys)) \o "</td><td>"
            \o CellText(ValueOf(obj, Head(keys)), blankUnknown)
            \o "</td></tr>" \o TableOf(obj, Tail(keys), blankUnknown)

\* The program callback has run to its end: the steps were parsed and the
\* table was written.
TablePopulated ==
    /\ step_data # <<>>
    /\ Len(step_keys) = Len(step_data[1])
    /\ program_details = TableOf(step_data[1], step_keys, FALSE)

-----------------------------------------------------------------------------
(* C1.  Once an accepted delete click's DELETE request has succeeded, the     *)
(* location is /program?user={scientist}, with the scientist the program      *)
(* response delivered, whatever the order of the click, the DELETE success    *)
(* and the program response.                                                  *)

C1_DeleteSuccessNavigates ==
    Succeeded("delete") # {} =>
        /\ scientist # <<>>
        /\ location = "/program?user=" \o scientist[1]

-----------------------------------------------------------------------------
(* C2.  The driver request is issued only after the program request has       *)
(* succeeded; while the program request has not succeeded, no driver request  *)
(* has been issued and #program_details is empty.                             *)

C2_DriverOnlyAfterProgram ==
    /\ \A i \in Issued("driver") : \E j \in Succeeded("program") : j < i
    /\ Succeeded("program") = {} => Issued("driver") = {} /\ program_details = ""

C2_Witness ==
    /\ \E i \in Issued("driver") : requests[i].status = "pending"
    /\ program_details # ""

-----------------------------------------------------------------------------
(* C3.  The number of DELETE requests issued never exceeds the number of      *)
(* accepted confirmations, and the location changes only in the success       *)
(* callback of a DELETE request.                                              *)

C3_DeclineDoesNothing ==
    /\ [](Cardinality(Issued("delete")) <= accepted)
    /\ [][location' # location => CallbackStep("delete")]_vars

C3_Witness ==
    /\ declined > 0
    /\ Cardinality(Issued("delete")) = accepted
    /\ location = ThisPage

-----------------------------------------------------------------------------
(* C4.  For a step whose mode is none of set, linear, hold, repeat,           *)
(* display_step returns no value and the second cell of the step's row is     *)
(* empty: the table is the one whose rows for such steps are                  *)
(* <tr><td>{key}</td><td></td></tr>.                                          *)

C4_UnknownModeCellEmpty ==
    step_data # <<>> =>
        /\ \A i \in DOMAIN step_data[1] :
              ~Recognised(step_data[1][i].value) =>
                    display_step(step_data[1][i].value) = Undefined
        /\ program_details = TableOf(step_data[1], step_keys, TRUE)

-----------------------------------------------------------------------------
(* C5.  The rendered table has exactly one row per key of the steps object,   *)
(* and the rows are in the string order of the keys: "2", "10", "1" render    *)
(* as "1", "10", "2".                                                         *)

C5_RowsInStringOrder ==
    step_data # <<>> =>
        /\ Len(step_keys) = Len(step_data[1])
        /\ {step_keys[i] : i \in DOMAIN step_keys}
              = {step_data[1][i].key : i \in DOMAIN step_data[1]}
        /\ \A i, j \in DOMAIN step_keys : i < j => LexBefore(step_keys[i], step_keys[j])
        /\ program_details = TableOf(step_data[1], step_keys, FALSE)

C5_Witness ==
    /\ step_data # <<>>
    /\ Len(step_data[1]) = 3
    /\ step_data[1][1].key = <<2>> /\ step_data[1][2].key = <<1, 0>>
    /\ step_data[1][3].key = <<1>>
    /\ step_keys = << <<1>>, <<1, 0>>, <<2>> >>
    /\ program_details # ""

-----------------------------------------------------------------------------
(* C6.  For a step of a recognised mode, display_step returns the text of     *)
(* that mode with the step's values in it as they are, and the text depends   *)
(* only on the mode and the members of that mode; the row of a table of one   *)
(* such step holds that text.  The degree sign is written as the character    *)
(* reference &deg; of the HTML the text becomes.                              *)

Degree == "&deg;"

ModeText(data) ==
    CASE data.mode = "set" ->
            "Set to " \o ToString(data.temperature) \o Degree \o "C for "
                \o ToString(data.duration) \o " seconds"
      [] data.mode = "linear" ->
            "Ramp from " \o ToString(data.start_temperature) \o Degree \o "C to "
                \o ToString(data.end_temperature) \o Degree \o "C over "
                \o ToString(data.duration) \o " seconds."
      [] data.mode = "hold" -> "Hold at " \o ToString(data.temperature) \o Degree \o "C"
      [] data.mode = "repeat" -> "Repeat " \o ToString(data.num_repeats) \o " times"

ModeMembers(mode) ==
    CASE mode = "set" -> {"mode", "temperature", "duration"}
      [] mode = "linear" -> {"mode", "start_temperature", "end_temperature", "duration"}
      [] mode = "hold" -> {"mode", "temperature"}
      [] mode = "repeat" -> {"mode", "num_repeats"}

-----------------------------------------------------------------------------
(* C7.  A request that does not succeed leaves only its own region            *)
(* unpopulated.  As claimed: whenever the program request has succeeded and   *)
(* the driver request has not, the title and the steps table are populated    *)
(* and the driver line is empty; while no DELETE has succeeded the location   *)
(* is unchanged; each GET is issued at most once.                             *)

-----------------------------------------------------------------------------
(* C8.  Each callback writes only its own region or navigates, each region    *)
(* is written only by its callback, and program_id and scientist, once        *)
(* assigned, never change.                                                    *)

C8_DisjointRegionsAndWriteOnce ==
    [][ /\ program_id # <<>> => program_id' = program_id
        /\ scientist # <<>> => scientist' = scientist
        /\ CallbackStep("program") => UNCHANGED <<driver_name, location>>
        /\ CallbackStep("driver") => UNCHANGED <<program_title, program_details, location>>
        /\ CallbackStep("delete") => UNCHANGED <<program_title, program_details, driver_name>>
        /\ program_title' # program_title => CallbackStep("program")
        /\ program_details' # program_details => CallbackStep("program")
        /\ driver_name' # driver_name => CallbackStep("driver")
        /\ location' # location => CallbackStep("delete")
        /\ scientist' # scientist => CallbackStep("program") ]_vars

C8_Witness ==
    /\ scientist # <<>> /\ program_id # <<>>
    /\ program_title # "" /\ program_details # "" /\ driver_name # ""
    /\ location # ThisPage
    /\ Cardinality(Succeeded("delete")) = 2

-----------------------------------------------------------------------------
(* C9.  When the steps text of the program response does not parse, the       *)
(* title is the response's name and the driver request has been issued, and   *)
(* the steps table is empty, also once the driver line is populated.          *)

C9_MalformedStepsAfterTitleAndDriver ==
    "SyntaxError" \in uncaught =>
        /\ program_title \in {r.name : r \in PageResponses}
        /\ \E i \in Issued("driver") :
              /\ requests[i].method = "GET"
              /\ requests[i].path \in {"driver/" \o r.driver : r \in PageResponses}
        /\ scientist # <<>>
        /\ step_data = <<>>
        /\ program_details = ""

C9_Witness ==
    /\ "SyntaxError" \in uncaught
    /\ program_title = "Bake"
    /\ driver_name = "Driver: OvenX"
    /\ program_details = ""

-----------------------------------------------------------------------------
(* C10.  The delete handler is bound from page ready on and is never          *)
(* unbound; the number of DELETE requests issued equals the number of         *)
(* accepted confirmations, each is DELETE program/{program_id} for the        *)
(* program_id of the initial GET, and more than one can be in flight.         *)

C10_OneDeletePerAcceptedConfirmation ==
    /\ handler_bound <=> program_id # <<>>
    /\ handler_bound <=> Issued("program") # {}
    /\ Cardinality(Issued("delete")) = accepted
    /\ \A i \in Issued("delete") :
          /\ requests[i].method = "DELETE"
          /\ requests[i].path = "program/" \o program_id[1]
          /\ \A j \in Issued("program") :
                requests[j].method = "GET" /\ requests[j].path = requests[i].path

C10_Witness ==
    /\ accepted = 2
    /\ Cardinality({i \in Issued("delete") : requests[i].status = "pending"}) = 2
    /\ Succeeded("program") = {}

=============================================================================
